---- MODULE Spec2Model ----
(***************************************************************************)
(* Model of login-server/server.js: the POST /api/auth/google handler and  *)
(* its helpers (handleApiResponse, findCustomerByEmail, createCustomer,    *)
(* updateCustomerPassword, createCustomerAccessToken).                     *)
(*                                                                         *)
(* Each request is an async function; every `await` is a suspension point, *)
(* so one action models one awaited external call together with the        *)
(* synchronous code that runs after it up to the next await (or to the     *)
(* response).  The identity provider and the commerce system are the       *)
(* environment: what they answer is drawn nondeterministically, and the    *)
(* commerce system's customer store is the only state shared by requests.  *)
(***************************************************************************)
EXTENDS Naturals, Sequences, FiniteSets

\* Number of requests the server handles in one behaviour.
NumReqs == 2

Reqs == 1..NumReqs

\* server.js:75-76 and :183, the credential written by create and reset.
DEFAULT_PASSWORD == "Default@123"
\* server.js:131, the credential sent in customerAccessTokenCreate.
TOKEN_PASSWORD == "12$@565mnbvfethiwpldkao"
\* A credential chosen by the account's owner before any login through here.
USER_PASSWORD == "user-chosen"

\* JavaScript null for a customer; a record so that it compares with records.
NULL == [null |-> TRUE]
\* JavaScript null for an access token (`!customerToken` is also true of "").
NoToken == ""

\* req.body.token: missing/empty, one the identity provider rejects, and a
\* valid one for the address a@x.
BodyTokens == {"", "bad", "idA"}

\* ticket.getPayload() of a token the identity provider accepts.
Payload(tok) == [email |-> "a@x", given_name |-> "Ann", family_name |-> "Lee"]

\* Does the identity provider accept the token at all.
Verifiable(tok) == tok = "idA"

\* Customers the commerce system may hold before the first request: another
\* user's account, and one for a@x whose owner chose the credential and
\* registered under a different first name.
OtherAccount ==
    [id |-> 1, email |-> "b@x", first_name |-> "Bob", last_name |-> "Ray",
     password |-> USER_PASSWORD]
OwnAccount ==
    [id |-> 2, email |-> "a@x", first_name |-> "Anna", last_name |-> "Lee",
     password |-> USER_PASSWORD]

VARIABLES
    pc,        \* pc[r]: where request r's handler is suspended
    body,      \* body[r]: req.body.token
    customer,  \* customer[r]: the handler's `customer` variable
    calls,     \* calls[r]: the outbound calls r made, in order, with outcomes
    resp,      \* resp[r]: the responses sent on r's `res`, in order
    prior,     \* prior[r]: the requests already answered when r arrived
    accounts   \* the commerce system's customers, in creation order

vars == <<pc, body, customer, calls, resp, prior, accounts>>

----------------------------------------------------------------------------
(* The commerce system (environment)                                       *)

\* The customer JSON object the REST API returns for a stored account.
View(a) ==
    [id |-> a.id, email |-> a.email,
     first_name |-> a.first_name, last_name |-> a.last_name]

RECURSIVE Matching(_, _)
Matching(accts, email) ==
    IF accts = <<>> THEN <<>>
    ELSE IF Head(accts).email = email
         THEN <<View(Head(accts))>> \o Matching(Tail(accts), email)
         ELSE Matching(Tail(accts), email)

\* An axios response: kind "json" or "html" with its data, or kind "throw"
\* when axios rejects (network error, non-2xx status).
JsonResponse(d) == [kind |-> "json", data |-> d]
HtmlResponse == [kind |-> "html", data |-> [html |-> "<html>"]]
Thrown == [kind |-> "throw", data |-> [message |-> "request failed"]]

Kinds == {"json", "html", "throw"}

Respond(kind, d) ==
    IF kind = "json" THEN JsonResponse(d)
    ELSE IF kind = "html" THEN HtmlResponse ELSE Thrown

\* Is a credential the stored one of some account with this email.
CredentialMatches(accts, email, pw) ==
    \E i \in 1..Len(accts) : accts[i].email = email /\ accts[i].password = pw

----------------------------------------------------------------------------
(* Helpers of server.js                                                    *)

HasError(data) == "error" \in DOMAIN data

handleApiResponse(response) ==
    IF response.kind = "html"
    THEN [error |-> "Expected JSON, received HTML."]
    ELSE response.data

\* Variant: the error object is handed back instead of null.
findCustomerByEmailReturnsError(response) ==
    IF response.kind = "throw" THEN NULL
    ELSE LET data == handleApiResponse(response) IN
         IF HasError(data) THEN [id |-> 0, error |-> data.error]
         ELSE IF Len(data.customers) > 0 THEN data.customers[1] ELSE NULL

findCustomerByEmail(response) ==
    IF response.kind = "throw" THEN NULL
    ELSE LET data == handleApiResponse(response) IN
         IF HasError(data) THEN NULL
         ELSE IF Len(data.customers) > 0 THEN data.customers[1] ELSE NULL

\* The customer object createCustomer posts.
createCustomerBody(payload) ==
    [first_name |-> payload.given_name, last_name |-> payload.family_name,
     email |-> payload.email, password |-> DEFAULT_PASSWORD]

createCustomer(response) ==
    IF response.kind = "throw" THEN NULL
    ELSE LET data == handleApiResponse(response) IN
         IF HasError(data) THEN NULL ELSE data.customer

\* Variant: the failure paths hand back an object instead of null.
updateCustomerPasswordNeverNull(response) ==
    IF response.kind = "json" THEN response.data.customer ELSE [id |-> 0]

updateCustomerPassword(response) ==
    IF response.kind = "throw" THEN NULL
    ELSE LET data == handleApiResponse(response) IN
         IF HasError(data) THEN NULL ELSE data.customer

\* variables.input of the customerAccessTokenCreate mutation.
accessTokenInput(email) == [email |-> email, password |-> TOKEN_PASSWORD]

\* Variant: userErrors is not looked at.
createCustomerAccessTokenNoUserErrors(response) ==
    IF response.kind = "throw" THEN NoToken
    ELSE LET data == handleApiResponse(response) IN
         IF HasError(data) THEN NoToken ELSE data.accessToken

createCustomerAccessToken(response) ==
    IF response.kind = "throw" THEN NoToken
    ELSE LET data == handleApiResponse(response) IN
         IF HasError(data) THEN NoToken
         ELSE IF Len(data.userErrors) > 0 THEN NoToken
              ELSE data.accessToken

----------------------------------------------------------------------------
(* Responses of the endpoint                                               *)

BadRequest == [status |-> 400, success |-> FALSE, error |-> "Token is required"]

Failure(msg) ==
    [status |-> 500, success |-> FALSE, error |-> "Authentication failed",
     details |-> msg]

\* Variant: first and last name swapped in the response.
SuccessNamesSwapped(cust, tok) ==
    [status |-> 200, success |-> TRUE, token |-> tok, redirectUrl |-> "/account",
     customer |-> [id |-> cust.id, email |-> cust.email,
                   firstName |-> cust.last_name, lastName |-> cust.first_name]]

Success(cust, tok) ==
    [status |-> 200, success |-> TRUE, token |-> tok, redirectUrl |-> "/account",
     customer |-> [id |-> cust.id, email |-> cust.email,
                   firstName |-> cust.first_name, lastName |-> cust.last_name]]

\* Variant: the token check is absent.
TokenNeverMissing(tok) == FALSE

\* `if (!token)` of the handler.
TokenMissing(tok) == tok = ""

\* Variant: the create branch is taken whatever the lookup returned.
NotFoundAlways(cust) == TRUE

\* `if (!customer)` after the lookup.
NotFound(cust) == cust = NULL

\* Variant: the `!customerToken` check is absent.
TokenNeverFailed(tok) == FALSE

\* `if (!customerToken)` after the token call.
TokenFailed(tok) == tok = NoToken

Send(r, m) == resp' = [resp EXCEPT ![r] = Append(@, m)]
Log(r, c) == calls' = [calls EXCEPT ![r] = Append(@, c)]
Goto(r, l) == pc' = [pc EXCEPT ![r] = l]

----------------------------------------------------------------------------
(* The handler, one action per await                                       *)

Init ==
    /\ pc = [r \in Reqs |-> "idle"]
    /\ body = [r \in Reqs |-> ""]
    /\ customer = [r \in Reqs |-> NULL]
    /\ calls = [r \in Reqs |-> <<>>]
    /\ resp = [r \in Reqs |-> <<>>]
    /\ prior = [r \in Reqs |-> {}]
    /\ accounts \in {<<>>, <<OtherAccount, OwnAccount>>}

\* The request arrives; the handler runs up to `await client.verifyIdToken`.
Receive(r) ==
    /\ pc[r] = "idle"
    /\ \E tok \in BodyTokens :
         /\ body' = [body EXCEPT ![r] = tok]
         /\ IF TokenMissing(tok)
            THEN Send(r, BadRequest) /\ Goto(r, "done")
            ELSE Goto(r, "verify") /\ UNCHANGED resp
    /\ prior' = [prior EXCEPT ![r] = {q \in Reqs : pc[q] = "done"}]
    /\ UNCHANGED <<customer, calls, accounts>>

\* verifyIdToken settles; on success up to `await findCustomerByEmail`.
Verify(r) ==
    /\ pc[r] = "verify"
    /\ \E ok \in {b \in BOOLEAN : b => Verifiable(body[r])} :
         /\ Log(r, [op |-> "verify", out |-> IF ok THEN "ok" ELSE "throw"])
         /\ IF ok
            THEN Goto(r, "lookup") /\ UNCHANGED resp
            ELSE Send(r, Failure("verify")) /\ Goto(r, "done")
    /\ UNCHANGED <<body, customer, prior, accounts>>

\* Variant: lookups for an email wait while another request for it is between
\* its lookup and its create or reset.
LookupReadySerialized(r) ==
    /\ pc[r] = "lookup"
    /\ \A q \in Reqs \ {r} : pc[q] \notin {"create", "reset"}

\* The lookup is awaited as soon as the token is verified: nothing is
\* acquired or waited for between the two.
LookupReady(r) == pc[r] = "lookup"

\* findCustomerByEmail settles; the handler takes the create or reset branch.
Lookup(r) ==
    /\ LookupReady(r)
    /\ \E kind \in Kinds :
         LET email == Payload(body[r]).email
             found == Matching(accounts, email)
             cust == findCustomerByEmail(Respond(kind, [customers |-> found]))
         IN /\ Log(r, [op |-> "lookup", out |-> kind, email |-> email,
                       exists |-> found # <<>>])
            /\ customer' = [customer EXCEPT ![r] = cust]
            /\ Goto(r, IF NotFound(cust) THEN "create" ELSE "reset")
    /\ UNCHANGED <<body, resp, prior, accounts>>

\* createCustomer settles; on success up to `await createCustomerAccessToken`.
Create(r) ==
    /\ pc[r] = "create"
    /\ \E kind \in Kinds :
         LET b == createCustomerBody(Payload(body[r]))
             stored == [id |-> Len(accounts) + 1, email |-> b.email,
                        first_name |-> b.first_name, last_name |-> b.last_name,
                        password |-> b.password]
             cust == createCustomer(Respond(kind, [customer |-> View(stored)]))
         IN /\ Log(r, [op |-> "create", out |-> kind, email |-> b.email,
                       pw |-> b.password,
                       id |-> IF kind = "json" THEN stored.id ELSE 0])
            /\ accounts' = IF kind = "json" THEN Append(accounts, stored)
                           ELSE accounts
            /\ customer' = [customer EXCEPT ![r] = cust]
            /\ IF cust = NULL
               THEN Send(r, Failure("create")) /\ Goto(r, "done")
               ELSE Goto(r, "token") /\ UNCHANGED resp
    /\ UNCHANGED <<body, prior>>

\* A PUT on an id the commerce system does not hold is answered 404, which
\* axios throws.
UpdateKinds(id) == IF id \in 1..Len(accounts) THEN Kinds ELSE {"throw"}

\* updateCustomerPassword settles; on success up to the token call.
Update(r) ==
    /\ pc[r] = "reset"
    /\ \E kind \in UpdateKinds(customer[r].id) :
         LET id == customer[r].id
             pw == DEFAULT_PASSWORD
             updated == [accounts EXCEPT ![id].password = pw]
             upd == updateCustomerPassword(
                        Respond(kind, [customer |-> View(updated[id])]))
         IN /\ Log(r, [op |-> "update", out |-> kind, id |-> id, pw |-> pw])
            /\ accounts' = IF kind = "json" THEN updated ELSE accounts
            /\ IF upd = NULL
               THEN Send(r, Failure("update")) /\ Goto(r, "done")
               ELSE Goto(r, "token") /\ UNCHANGED resp
    /\ UNCHANGED <<body, customer, prior>>

\* What the storefront API may answer with a JSON body: a token, an empty
\* token, or user errors (with or without a token beside them).
TokenData ==
    {[userErrors |-> <<>>, accessToken |-> "at1"],
     [userErrors |-> <<>>, accessToken |-> ""],
     [userErrors |-> <<"Unidentified customer">>, accessToken |-> ""],
     [userErrors |-> <<"Unidentified customer">>, accessToken |-> "at1"]}

\* createCustomerAccessToken settles; the handler responds.
IssueToken(r) ==
    /\ pc[r] = "token"
    /\ \E kind \in Kinds :
       \E d \in IF kind = "json" THEN TokenData
                ELSE {[userErrors |-> <<>>, accessToken |-> ""]} :
         LET input == accessTokenInput(Payload(body[r]).email)
             tok == createCustomerAccessToken(Respond(kind, d))
         IN /\ Log(r, [op |-> "token", out |-> kind, email |-> input.email,
                       pw |-> input.password,
                       errors |-> (kind = "json" /\ d.userErrors # <<>>),
                       issued |-> IF kind = "json" THEN d.accessToken ELSE "",
                       match |-> CredentialMatches(accounts, input.email,
                                                   input.password)])
            /\ IF TokenFailed(tok)
               THEN Send(r, Failure("token"))
               ELSE Send(r, Success(customer[r], tok))
            /\ Goto(r, "done")
    /\ UNCHANGED <<body, customer, prior, accounts>>

Next ==
    \E r \in Reqs :
        \/ Receive(r)
        \/ Verify(r)
        \/ Lookup(r)
        \/ Create(r)
        \/ Update(r)
        \/ IssueToken(r)

Spec == Init /\ [][Next]_vars

----------------------------------------------------------------------------
(* Properties                                                              *)

Last(s) == s[Len(s)]
Ops(r) == [i \in 1..Len(calls[r]) |-> calls[r][i].op]
IsPrefix(s, t) == Len(s) <= Len(t) /\ s = SubSeq(t, 1, Len(s))
CallsOf(r, op) == {i \in 1..Len(calls[r]) : calls[r][i].op = op}
Made(r, op) == CallsOf(r, op) # {}
TheCall(r, op) == calls[r][CHOOSE i \in CallsOf(r, op) : TRUE]

\* The external call did not deliver what the step asked for.
CallFailed(c) ==
    IF c.op = "verify" THEN c.out # "ok"
    ELSE IF c.op = "token"
         THEN c.out # "json" \/ c.errors \/ c.issued = ""
         ELSE c.out # "json"

IsFailure(m) == m.status = 500 /\ m.success = FALSE
IsSuccess(m) == m.status = 200 /\ m.success = TRUE
Answered(r, P(_)) == Len(resp[r]) = 1 /\ P(resp[r][1])

ResetChain == <<"verify", "lookup", "update", "token">>
CreateChain == <<"verify", "lookup", "create", "token">>

\* The lookup of r returned an existing account / found no account.
LookupReturnedAccount(r) ==
    Made(r, "lookup") /\ TheCall(r, "lookup").out = "json"
                      /\ TheCall(r, "lookup").exists
LookupSawNoAccount(r) ==
    Made(r, "lookup") /\ ~TheCall(r, "lookup").exists

\* C1: when the lookup returns an existing account, the request's calls after
\* it are credential-reset and then issue-session-token, in that order (the
\* second once the first succeeded), and create-account is never called.
C1_ResetThenToken ==
    \A r \in Reqs : LookupReturnedAccount(r) =>
        /\ IsPrefix(Ops(r), ResetChain)
        /\ pc[r] \in {"token", "done"} => Made(r, "update")
        /\ (Made(r, "update") /\ ~CallFailed(TheCall(r, "update")))
             => (pc[r] = "token" \/ Made(r, "token"))
        /\ ~Made(r, "create")

C1_Witness ==
    \E r \in Reqs : /\ LookupReturnedAccount(r)
                    /\ Ops(r) = ResetChain
                    /\ Answered(r, IsSuccess)

\* The customer object of a 200 response for a stored account.
CustomerFields(a) ==
    [id |-> a.id, email |-> a.email,
     firstName |-> a.first_name, lastName |-> a.last_name]

\* C2: when no account exists for the email, the request's calls after the
\* lookup are create-account and then issue-session-token, credential-reset
\* is never called, and when both succeed the one response is 200 with
\* success:true, the issued token and the created account's fields.
C2_CreateThenToken ==
    \A r \in Reqs : LookupSawNoAccount(r) =>
        /\ IsPrefix(Ops(r), CreateChain)
        /\ pc[r] \in {"token", "done"} => Made(r, "create")
        /\ (Made(r, "create") /\ ~CallFailed(TheCall(r, "create")))
             => (pc[r] = "token" \/ Made(r, "token"))
        /\ ~Made(r, "update")
        /\ (/\ Made(r, "create") /\ ~CallFailed(TheCall(r, "create"))
            /\ Made(r, "token") /\ ~CallFailed(TheCall(r, "token")))
             => /\ Len(resp[r]) = 1
                /\ IsSuccess(resp[r][1])
                /\ resp[r][1].token = TheCall(r, "token").issued
                /\ resp[r][1].customer =
                     CustomerFields(accounts[TheCall(r, "create").id])

C2_Witness ==
    \E r \in Reqs : /\ LookupSawNoAccount(r)
                    /\ Ops(r) = CreateChain
                    /\ Answered(r, IsSuccess)
                    /\ resp[r][1].customer.firstName = "Ann"
                    /\ resp[r][1].customer.lastName = "Lee"

\* The environment behaved as the claim C3 supposes for request r: the
\* identity provider accepted the token, every commerce call was answered
\* with JSON, and a session token was issued exactly when the credential
\* supplied was the stored one (user errors otherwise).
Cooperative(r) ==
    \A i \in 1..Len(calls[r]) :
        LET c == calls[r][i] IN
        IF c.op = "verify" THEN c.out = "ok"
        ELSE IF c.op = "token"
             THEN /\ c.out = "json"
                  /\ c.match => (~c.errors /\ c.issued # "")
                  /\ ~c.match => (c.errors /\ c.issued = "")
             ELSE c.out = "json"

\* C3: two requests with valid tokens for the same email, the second
\* arriving after the first was answered, against a commerce system that
\* issues a session token only for the stored credential: both are answered
\* 200 with a token and the second takes the reset path.
C3_TwiceInARow ==
    \A r, q \in Reqs :
        (/\ r \in prior[q] /\ pc[q] = "done"
         /\ Verifiable(body[r]) /\ Verifiable(body[q])
         /\ Payload(body[r]).email = Payload(body[q]).email
         /\ Cooperative(r) /\ Cooperative(q))
        => /\ Answered(r, IsSuccess) /\ resp[r][1].token # ""
           /\ Answered(q, IsSuccess) /\ resp[q][1].token # ""
           /\ Made(q, "update")

\* C4: the credential sent in the session-token mutation is the one that
\* create-account or credential-reset wrote earlier in the same request.
C4_SameCredential ==
    \A r \in Reqs : \A i \in CallsOf(r, "token") :
        /\ i > 1
        /\ calls[r][i - 1].op \in {"create", "update"}
        /\ calls[r][i].pw = calls[r][i - 1].pw

\* C5 as stated: a failure of any call, the lookup included, is the
\* request's last call and is answered by one 500 failure response.
C5_AnyFailureAborts ==
    \A r \in Reqs : \A i \in 1..Len(calls[r]) :
        CallFailed(calls[r][i]) =>
            /\ i = Len(calls[r])
            /\ Answered(r, IsFailure)

\* C5 amended: a failure of verify, create-account, credential-reset or
\* issue-session-token is the request's last call and is answered by one
\* 500 failure response; a failed lookup is not: the request goes on to
\* create-account as if no account existed.  No call is made twice.
C5_FailureAbortsExceptLookup ==
    \A r \in Reqs :
        /\ \A i \in 1..Len(calls[r]) :
             CallFailed(calls[r][i]) =>
                IF calls[r][i].op = "lookup"
                THEN IF i = Len(calls[r])
                     THEN pc[r] = "create" /\ resp[r] = <<>>
                     ELSE calls[r][i + 1].op = "create"
                ELSE /\ i = Len(calls[r])
                     /\ Answered(r, IsFailure)
                     /\ pc[r] = "done"
        /\ \A i, j \in 1..Len(calls[r]) :
             calls[r][i].op = calls[r][j].op => i = j

C5_Witness ==
    /\ \E r \in Reqs : /\ Made(r, "update")
                       /\ CallFailed(TheCall(r, "update"))
                       /\ Answered(r, IsFailure)
    /\ \E r \in Reqs : /\ Made(r, "lookup")
                       /\ CallFailed(TheCall(r, "lookup"))
                       /\ Made(r, "create")
                       /\ CallFailed(TheCall(r, "create"))
                       /\ Answered(r, IsFailure)

\* C6: when issue-session-token answers with user errors, the one response
\* is 500 with success:false and has no token field, on either path.
C6_UserErrorsGiveFailure ==
    \A r \in Reqs :
        (Made(r, "token") /\ TheCall(r, "token").errors) =>
            /\ Answered(r, IsFailure)
            /\ "token" \notin DOMAIN resp[r][1]

C6_Witness ==
    \E r, q \in Reqs :
        /\ Made(r, "create") /\ Made(r, "token") /\ TheCall(r, "token").errors
        /\ TheCall(r, "token").issued # ""
        /\ Made(q, "update") /\ Made(q, "token") /\ TheCall(q, "token").errors
        /\ Answered(r, IsFailure) /\ Answered(q, IsFailure)

\* What the environment answered to the calls after the lookup, without the
\* names of the calls.
Outcome(c) ==
    [out |-> c.out,
     errors |-> IF c.op = "token" THEN c.errors ELSE FALSE,
     issued |-> IF c.op = "token" THEN c.issued ELSE ""]
OutcomesAfterLookup(r) ==
    [i \in 1..(Len(calls[r]) - 2) |-> Outcome(calls[r][i + 2])]
OpsAfterLookup(r) == [i \in 1..(Len(calls[r]) - 2) |-> calls[r][i + 2].op]

\* A response without the identifier the commerce system gave the account.
WithoutId(m) ==
    IF "customer" \in DOMAIN m
    THEN [m EXCEPT !.customer = [email |-> @.email, firstName |-> @.firstName,
                                 lastName |-> @.lastName]]
    ELSE m

HtmlLookup(r) == Made(r, "lookup") /\ TheCall(r, "lookup").out = "html"
EmptyLookup(r) ==
    Made(r, "lookup") /\ TheCall(r, "lookup").out = "json"
                      /\ ~TheCall(r, "lookup").exists

\* C7: a request whose lookup was answered with HTML goes on as one whose
\* lookup found no account: it is on the create branch, and for the same
\* answers to the later calls it makes the same calls and sends the same
\* response (up to the new account's identifier), also when an account
\* exists.
C7_HtmlAsNotFound ==
    \A r \in Reqs : HtmlLookup(r) =>
        /\ customer[r] = NULL \/ Made(r, "create")
        /\ Len(calls[r]) = 2 => (pc[r] = "create" /\ resp[r] = <<>>)
        /\ \A q \in Reqs :
             (/\ EmptyLookup(q) /\ body[q] = body[r]
              /\ pc[r] = "done" /\ pc[q] = "done"
              /\ OutcomesAfterLookup(r) = OutcomesAfterLookup(q))
             => /\ OpsAfterLookup(r) = OpsAfterLookup(q)
                /\ Len(resp[r]) = Len(resp[q])
                /\ \A i \in 1..Len(resp[r]) :
                     WithoutId(resp[r][i]) = WithoutId(resp[q][i])

C7_Witness ==
    \E r, q \in Reqs :
        /\ HtmlLookup(r) /\ TheCall(r, "lookup").exists
        /\ EmptyLookup(q) /\ body[q] = body[r]
        /\ OutcomesAfterLookup(r) = OutcomesAfterLookup(q)
        /\ Ops(r) = CreateChain /\ Ops(q) = CreateChain
        /\ Answered(r, IsSuccess) /\ Answered(q, IsSuccess)

\* C8: a request whose body has no token is answered exactly 400,
\* success:false, "Token is required", and makes no outbound call.
C8_MissingToken ==
    \A r \in Reqs : (pc[r] # "idle" /\ body[r] = "") =>
        /\ resp[r] = <<[status |-> 400, success |-> FALSE,
                        error |-> "Token is required"]>>
        /\ calls[r] = <<>>
        /\ pc[r] = "done"

C8_Witness ==
    \E r, q \in Reqs : /\ pc[r] = "done" /\ body[r] = "" /\ Len(resp[r]) = 1
                       /\ Made(q, "token")

\* C9: nothing serialises requests for one email: a request that is due to
\* look up or to create can always do so, whatever the other requests are
\* doing, so two requests can both see no account and both create one.
C9_NoSerialisation ==
    \A r \in Reqs :
        /\ pc[r] = "lookup" => ENABLED Lookup(r)
        /\ pc[r] = "create" => ENABLED Create(r)

C9_Witness ==
    \E r, q \in Reqs :
        /\ r # q
        /\ EmptyLookup(r) /\ EmptyLookup(q)
        /\ TheCall(r, "lookup").email = TheCall(q, "lookup").email
        /\ Made(r, "create") /\ Made(q, "create")
        /\ TheCall(r, "create").out = "json" /\ TheCall(q, "create").out = "json"
        /\ TheCall(r, "create").email = TheCall(q, "create").email
        /\ Len(Matching(accounts, TheCall(r, "create").email)) = 2

\* C10: a 200 response is sent only after the request's verification
\* succeeded, exactly one of create-account and credential-reset was called
\* and returned an account, and issue-session-token returned a non-empty
\* token; a request gets at most one response, and exactly one once done.
C10_SuccessOnlyAfterFullChain ==
    \A r \in Reqs :
        /\ Len(resp[r]) <= 1
        /\ pc[r] = "done" <=> Len(resp[r]) = 1
        /\ \A i \in 1..Len(resp[r]) : resp[r][i].status = 200 =>
             /\ Made(r, "verify") /\ ~CallFailed(TheCall(r, "verify"))
             /\ Made(r, "create") # Made(r, "update")
             /\ \A op \in {"create", "update"} :
                  Made(r, op) => ~CallFailed(TheCall(r, op))
             /\ Made(r, "token") /\ TheCall(r, "token").out = "json"
             /\ ~TheCall(r, "token").errors
             /\ TheCall(r, "token").issued # ""
             /\ resp[r][i].token = TheCall(r, "token").issued

C10_Witness ==
    \E r, q \in Reqs : /\ Answered(r, IsSuccess) /\ Made(r, "update")
                       /\ Answered(q, IsFailure) /\ Made(q, "token")
                       /\ TheCall(q, "token").issued = ""
                       /\ ~TheCall(q, "token").errors
                       /\ TheCall(q, "token").out = "json"

====
